---- MODULE Spec2Model ----
(***************************************************************************)
(* Webhook receivers of vex-shopify: the cart-update handler and the three *)
(* versions of the order-update handler, together with the remote platform *)
(* they call.  A delivery runs from its receipt to the first outbound call *)
(* in one step (JavaScript runs to the next await), and then one step per  *)
(* returning call.  The two test endpoints are modelled with them: the     *)
(* one that forwards a body to the cart-update handler, and the GET that   *)
(* edits a hard-coded order.                                               *)
(*                                                                         *)
(* Strings are sequences of tokens, so that concatenation (\o), prefix     *)
(* tests and String() are computed and not assumed.  JSON values are       *)
(* tagged tuples: <<"undefined">>, <<"number", n>>, <<"string", s>>,       *)
(* <<"array", a>>.                                                         *)
(***************************************************************************)
EXTENDS Integers, Sequences, FiniteSets, TLC

VARIABLES cfg, mode, env, req, pc, loc, resp, calls, lines, session, test

vars == <<cfg, mode, env, req, pc, loc, resp, calls, lines, session, test>>

\* ------------------------------------------------------------- bounds
\* webhook deliveries of one behaviour when the platform is the sender
MaxDeliveries == 2
\* webhook deliveries of one behaviour when anybody may send a request
AuthDeliveries == 1
\* webhook deliveries of one behaviour when the payloads are varied
PayloadDeliveries == 1
\* characters of a base64 digest (44 in the program, scaled down)
DigestLen == 2

\* ------------------------------------------------------------ strings
Undefined == <<"undefined">>
Num(n) == <<"number", n>>
StrV(s) == <<"string", s>>
Arr(a) == <<"array", a>>
Obj == <<"object">>
Tag(v) == v[1]

Digits == <<"0", "1", "2", "3", "4", "5", "6", "7", "8", "9">>
DigitTokens == {Digits[i] : i \in 1..Len(Digits)}

\* String(v) of JavaScript
String(v) ==
  CASE Tag(v) = "number" -> <<Digits[v[2] + 1]>>
    [] Tag(v) = "string" -> v[2]
    [] OTHER -> <<"undefined">>

\* the truthiness JavaScript gives a value in `!v`, `v && ...`, `v || ...`
Truthy(v) ==
  CASE Tag(v) = "number" -> v[2] # 0
    [] Tag(v) = "string" -> v[2] # <<>>
    [] Tag(v) = "array" -> TRUE
    [] Tag(v) = "object" -> TRUE
    [] OTHER -> FALSE

\* a || b
OrElse(a, b) == IF Truthy(a) THEN a ELSE b

\* /^\d+$/.test(s)
IsDigits(s) == Len(s) >= 1 /\ \A i \in 1..Len(s) : s[i] \in DigitTokens

VariantPrefix == <<"gid://shopify/ProductVariant/">>
OrderPrefix == <<"gid://shopify/Order/">>

\* /^gid:\/\/shopify\/ProductVariant\//.test(s)
HasVariantPrefix(s) == Len(s) >= 1 /\ s[1] = VariantPrefix[1]

\* s.split(',')
RECURSIVE Split(_)
Split(s) ==
  IF \A i \in 1..Len(s) : s[i] # ","
  THEN <<s>>
  ELSE LET k == CHOOSE i \in 1..Len(s) :
                  s[i] = "," /\ \A j \in 1..(i - 1) : s[j] # ","
       IN <<SubSeq(s, 1, k - 1)>> \o Split(SubSeq(s, k + 1, Len(s)))

\* list.includes(x)
Includes(list, x) == \E i \in 1..Len(list) : list[i] = x

\* ------------------------------------------------------- configuration
\* the four handlers of the repository
Handlers == {"cart", "order", "orderV1", "orderV2"}

\* the identifiers the platform uses for the entity and its products
EntityId == Num(5)
TriggerProductId == Num(1)
TriggerVariantId == Num(2)
TargetVariantId == Num(3)
TargetProductId == Num(4)

\* the remote identifier of the target variant and of the order
TargetGid == VariantPrefix \o String(TargetVariantId)
EntityGid == OrderPrefix \o String(EntityId)
CartToken == <<"cart-token">>
CartId == <<"cart-id">>

\* ------------------------------------------------------- verification
\* crypto.createHmac('sha256', secret).update(body).digest('base64'): a
\* keyed hash without collisions, DigestLen characters long
Hmac(secret, body) == [i \in 1..DigestLen |-> <<secret, body, i>>]

\* crypto.timingSafeEqual(a, b): a RangeError when the lengths differ
timingSafeEqual(a, b) ==
  IF Len(a) # Len(b)
  THEN [threw |-> TRUE, value |-> FALSE]
  ELSE [threw |-> FALSE, value |-> (a = b)]

verifyShopifyWebhook_NoBypass(body, hmacHeader) ==
  IF ~Truthy(StrV(cfg.SHOPIFY_WEBHOOK_SECRET)) \/ ~Truthy(hmacHeader)
  THEN [threw |-> FALSE, value |-> FALSE]
  ELSE timingSafeEqual(Hmac(cfg.SHOPIFY_WEBHOOK_SECRET, body), hmacHeader[2])

verifyShopifyWebhook_NoGuard(body, hmacHeader) ==
  IF cfg.BYPASS_WEBHOOK_VERIFICATION
  THEN [threw |-> FALSE, value |-> TRUE]
  ELSE IF Tag(hmacHeader) # "string"
       THEN [threw |-> TRUE, value |-> FALSE]
       ELSE timingSafeEqual(Hmac(cfg.SHOPIFY_WEBHOOK_SECRET, body), hmacHeader[2])

verifyShopifyWebhook(body, hmacHeader) ==
  IF cfg.BYPASS_WEBHOOK_VERIFICATION
  THEN [threw |-> FALSE, value |-> TRUE]
  ELSE IF ~Truthy(StrV(cfg.SHOPIFY_WEBHOOK_SECRET)) \/ ~Truthy(hmacHeader)
       THEN [threw |-> FALSE, value |-> FALSE]
       ELSE timingSafeEqual(Hmac(cfg.SHOPIFY_WEBHOOK_SECRET, body), hmacHeader[2])

\* --------------------------------------------------------- predicates
\* !x.items || !Array.isArray(x.items)
NoList(items) == Tag(items) # "array"

\* TRIGGER_VARIANT_IDS = (process.env.TRIGGER_VARIANT_IDS || '').split(',')
TRIGGER_VARIANT_IDS == Split(cfg.TRIGGER_VARIANT_IDS)

hasTriggerProductCart(cart) ==
  IF NoList(cart.items) \/ Len(TRIGGER_VARIANT_IDS) = 0
  THEN FALSE
  ELSE \E i \in 1..Len(cart.items[2]) :
         Includes(TRIGGER_VARIANT_IDS, String(cart.items[2][i].variant_id))

hasHiddenProduct(cart) ==
  IF NoList(cart.items) \/ cfg.OG_VARIANT_ID = <<>>
  THEN FALSE
  ELSE \E i \in 1..Len(cart.items[2]) :
         String(cart.items[2][i].variant_id) = cfg.OG_VARIANT_ID

hasTriggerProduct_Raw(order) ==
  IF NoList(order.line_items) \/ Len(TRIGGER_VARIANT_IDS) = 0
  THEN FALSE
  ELSE \E i \in 1..Len(order.line_items[2]) :
         LET item == order.line_items[2][i]
         IN Truthy(item.product_id) /\ Tag(item.product_id) = "string"
            /\ Includes(TRIGGER_VARIANT_IDS, item.product_id[2])

hasTriggerProduct(order) ==
  IF NoList(order.line_items) \/ Len(TRIGGER_VARIANT_IDS) = 0
  THEN FALSE
  ELSE \E i \in 1..Len(order.line_items[2]) :
         LET item == order.line_items[2][i]
         IN Truthy(item.product_id)
            /\ Includes(TRIGGER_VARIANT_IDS, String(item.product_id))

hasOGPack(order) ==
  IF NoList(order.line_items) \/ cfg.OG_VARIANT_ID = <<>>
  THEN FALSE
  ELSE \E i \in 1..Len(order.line_items[2]) :
         LET item == order.line_items[2][i]
         IN \/ Truthy(item.product_id) /\ String(item.product_id) = cfg.OG_VARIANT_ID
            \/ Truthy(item.variant_id) /\ String(item.variant_id) = cfg.OG_VARIANT_ID

hasTriggerProductV1(order) ==
  IF NoList(order.line_items) \/ Len(TRIGGER_VARIANT_IDS) = 0
  THEN FALSE
  ELSE \E i \in 1..Len(order.line_items[2]) :
         Includes(TRIGGER_VARIANT_IDS, String(order.line_items[2][i].product_id))

hasOGPackV1(order) ==
  IF NoList(order.line_items) \/ cfg.OG_VARIANT_ID = <<>>
  THEN FALSE
  ELSE \E i \in 1..Len(order.line_items[2]) :
         String(order.line_items[2][i].product_id) = cfg.OG_VARIANT_ID

ConditionMet_Once(payload) ==
  /\ lines = <<>>
  /\ CASE cfg.handler = "cart" -> hasTriggerProductCart(payload) /\ ~hasHiddenProduct(payload)
       [] cfg.handler = "orderV1" -> hasTriggerProductV1(payload) /\ ~hasOGPackV1(payload)
       [] OTHER -> hasTriggerProduct(payload) /\ ~hasOGPack(payload)

ConditionMet_Locked(payload) ==
  /\ \A d \in DOMAIN pc : pc[d] \in {"idle", "done"}
  /\ CASE cfg.handler = "cart" -> hasTriggerProductCart(payload) /\ ~hasHiddenProduct(payload)
       [] cfg.handler = "orderV1" -> hasTriggerProductV1(payload) /\ ~hasOGPackV1(payload)
       [] OTHER -> hasTriggerProduct(payload) /\ ~hasOGPack(payload)

\* hasTriggerProduct(x) && !hasOGPack(x), as the deployed handler evaluates it
ConditionMet(payload) ==
  CASE cfg.handler = "cart" -> hasTriggerProductCart(payload) /\ ~hasHiddenProduct(payload)
    [] cfg.handler = "orderV1" -> hasTriggerProductV1(payload) /\ ~hasOGPackV1(payload)
    [] OTHER -> hasTriggerProduct(payload) /\ ~hasOGPack(payload)

\* ------------------------------------------------------------ requests
Deliveries == 1..mode.n

NoResp == [status |-> 0, message |-> ""]
Resp(status, message) == [status |-> status, message |-> message]

NoLoc == [parsed |-> FALSE, orderId |-> Undefined, editId |-> Undefined,
          lineItemId |-> Undefined, variantId |-> Undefined]

Outcomes == {"ok", "http", "errors", "userErrors", "noData", "noToken"}

Call_TwoUnits(op, id, variantId, lineItemId, allowDuplicates) ==
  [op |-> op, id |-> id, variantId |-> variantId, lineItemId |-> lineItemId,
   quantity |-> 2, allowDuplicates |-> allowDuplicates, outcome |-> "pending"]

Call(op, id, variantId, lineItemId, allowDuplicates) ==
  [op |-> op, id |-> id, variantId |-> variantId, lineItemId |-> lineItemId,
   quantity |-> 1, allowDuplicates |-> allowDuplicates, outcome |-> "pending"]

\* a line item as the platform reports it in a payload: by the bare
\* identifiers that the handlers compare with their settings and prefix with
\* gid://shopify/ProductVariant/ before they send them to the remote
Item(variant_id, product_id) ==
  [variant_id |-> variant_id, product_id |-> product_id, quantity |-> Num(1)]

TriggerItem == Item(TriggerVariantId, TriggerProductId)
TargetItem == Item(TargetVariantId, TargetProductId)

Payload(id, token, gid, items) ==
  IF cfg.handler = "cart"
  THEN [id |-> id, token |-> token, admin_graphql_api_id |-> Undefined,
        items |-> items, line_items |-> Undefined]
  ELSE [id |-> id, token |-> Undefined, admin_graphql_api_id |-> gid,
        items |-> Undefined, line_items |-> items]

\* the entity's line items now: the shopper's trigger item and the target
\* units added so far
CurrentItems == Arr(<<TriggerItem>> \o [i \in 1..Len(lines) |-> TargetItem])

\* the payload the platform sends for the entity as it is now
Snapshot ==
  IF cfg.handler = "cart"
  THEN Payload(StrV(CartToken), StrV(CartToken), Undefined, CurrentItems)
  ELSE Payload(EntityId, Undefined, StrV(EntityGid), CurrentItems)

\* the payload of the entity's first update, before any target was added
FirstPayload ==
  IF cfg.handler = "cart"
  THEN Payload(StrV(CartToken), StrV(CartToken), Undefined, Arr(<<TriggerItem>>))
  ELSE Payload(EntityId, Undefined, StrV(EntityGid), Arr(<<TriggerItem>>))

Garbage == <<"text">>
Json(payload) == <<"json", payload>>

\* signed payloads that differ in their identifiers and in the shape of
\* their line-item collection
SignedPayloads ==
  {Payload(id, alt[1], alt[2], items) :
     id \in {Undefined, IF cfg.handler = "cart" THEN StrV(CartId) ELSE EntityId},
     alt \in {<<Undefined, Undefined>>, <<StrV(CartToken), StrV(EntityGid)>>},
     items \in {Undefined, Obj, Arr(<<>>), Arr(<<TriggerItem>>),
               Arr(<<TriggerItem, TargetItem>>)}}

\* the values a line item's variant_id or product_id may have: absent, the
\* empty string, zero, an identifier as number and as string, the target's
\* identifier, and an identifier no setting names
ItemIds ==
  LET id == IF cfg.handler = "cart" THEN TriggerVariantId ELSE TriggerProductId
  IN {Undefined, StrV(<<>>), Num(0), id, StrV(String(id)), TargetVariantId, Num(7)}

\* line-item collections: none, not a list, empty, one item, two items
ItemLists ==
  {Undefined, Obj, Arr(<<>>)}
  \cup {Arr(<<Item(v, p)>>) : v \in ItemIds, p \in ItemIds}
  \cup {Arr(<<Item(Num(7), Num(7)), Item(v, v)>>) : v \in ItemIds}

\* signed payloads that differ in their line items
ItemPayloads == {Payload(Undefined, Undefined, Undefined, items) : items \in ItemLists}

\* the forms an identifier takes in a payload: a number, its digits as a
\* string, a longer string of digits, a global identifier, another string
IdForms ==
  {EntityId, StrV(String(EntityId)), StrV(String(EntityId) \o String(EntityId)),
   StrV(EntityGid), StrV(String(EntityId) \o <<"a">>)}

\* qualifying line-item lists: one trigger item, two of them, one of
\* quantity three
TriggerLists ==
  {Arr(<<TriggerItem>>), Arr(<<TriggerItem, TriggerItem>>),
   Arr(<<[TriggerItem EXCEPT !.quantity = Num(3)]>>)}

\* signed qualifying payloads that differ in the form of their identifier
\* and in their trigger items
VariedPayloads ==
  {Payload(id, Undefined, Undefined, items) : id \in IdForms, items \in TriggerLists}

\* the bodies a sender may post: unparsable text, the entity's payload, and
\* payloads without identifier, without trigger item, without line items
Bodies ==
  CASE mode.sender = "platform" -> {Json(Snapshot)}
    [] mode.sender = "signed" -> {Garbage} \cup {Json(p) : p \in SignedPayloads}
    [] mode.sender = "items" -> {Json(Snapshot)} \cup {Json(p) : p \in ItemPayloads}
    [] mode.sender = "varied" -> {Json(p) : p \in VariedPayloads}
    [] mode.sender = "redelivery" -> {Json(FirstPayload)}
    [] OTHER ->
       {Garbage, Json(Snapshot),
        Json(Payload(Undefined, Undefined, Undefined, Arr(<<TriggerItem>>))),
        Json(Payload(StrV(EntityGid), Undefined, Undefined, Arr(<<TargetItem>>))),
        Json(Payload(StrV(EntityGid), Undefined, Undefined, Undefined))}

PlatformSecret == <<"k1">>

\* the x-shopify-hmac-sha256 values a sender may supply for a body: none,
\* the empty string, the digest, a digest under another key, and the digest
\* with a character removed or added
Headers(body) ==
  IF mode.sender # "any"
  THEN {StrV(Hmac(PlatformSecret, body))}
  ELSE LET good == Hmac(PlatformSecret, body)
       IN {Undefined, StrV(<<>>), StrV(good),
           StrV(Hmac(<<"k2">>, body)),
           StrV(SubSeq(good, 1, Len(good) - 1)),
           StrV(good \o <<good[1]>>)}

\* ------------------------------------------------------- handler code
\* what a step of a handler leaves behind: where the delivery waits, its
\* response if it has answered, its locals, and the call it issued (if any)
Step(at, response, locals, issued) ==
  [pc |-> at, resp |-> response, loc |-> locals, issued |-> issued]

Answer_Hangs(status, message, locals) ==
  IF status = 500
  THEN Step("hung", NoResp, locals, <<>>)
  ELSE Step("done", Resp(status, message), locals, <<>>)

Answer(status, message, locals) == Step("done", Resp(status, message), locals, <<>>)

\* the step names of the order-edit transaction
BeginOp == IF cfg.handler \in {"order", "orderTest"} THEN "orderEditBegin" ELSE "orderEdit"
RepriceOp == IF cfg.handler = "order" THEN "orderEditAddLineItemDiscount"
                                      ELSE "orderEditUpdateLineItem"

OrderGid_AlwaysPrefix(orderId) == OrderPrefix \o String(orderId)

\* typeof orderId === 'number' || /^\d+$/.test(String(orderId))
\*   ? `gid://shopify/Order/${orderId}` : orderId
OrderGid(orderId) ==
  IF Tag(orderId) = "number" \/ IsDigits(String(orderId))
  THEN OrderPrefix \o String(orderId)
  ELSE String(orderId)

\* /^gid:\/\/shopify\/ProductVariant\//.test(OG_VARIANT_ID)
\*   ? OG_VARIANT_ID : `gid://shopify/ProductVariant/${OG_VARIANT_ID}`
VariantGid ==
  IF cfg.handler \in {"order", "orderV2", "orderTest"} /\ HasVariantPrefix(cfg.OG_VARIANT_ID)
  THEN cfg.OG_VARIANT_ID
  ELSE VariantPrefix \o cfg.OG_VARIANT_ID

PayloadId_TokenFirst(payload) ==
  CASE cfg.handler = "cart" -> OrElse(payload.token, payload.id)
    [] cfg.handler = "order" -> OrElse(payload.id, payload.admin_graphql_api_id)
    [] cfg.handler = "orderV1" -> payload.id
    [] OTHER -> OrElse(payload.admin_graphql_api_id, payload.id)

\* the identifier the handler takes from the payload
PayloadId(payload) ==
  CASE cfg.handler = "cart" -> OrElse(payload.id, payload.token)
    [] cfg.handler = "order" -> OrElse(payload.id, payload.admin_graphql_api_id)
    [] cfg.handler = "orderV1" -> payload.id
    [] OTHER -> OrElse(payload.admin_graphql_api_id, payload.id)

FailedMessage == IF cfg.handler = "cart" THEN "Failed to add product"
                                         ELSE "Failed to add free item to order"
AddedMessage == IF cfg.handler = "cart" THEN "Hidden product added to cart"
                                        ELSE "Free item added to order"
MissingMessage == IF cfg.handler = "cart" THEN "Missing cart ID" ELSE "Missing order ID"

AfterNull_Discard(locals) ==
  IF cfg.handler = "cart"
  THEN Answer(200, AddedMessage, locals)
  ELSE Step("done", Resp(500, FailedMessage), locals,
            <<Call("orderEditDiscard", locals.editId, <<>>, Undefined, "unset")>>)

AfterNull_BadRequest(locals) ==
  IF cfg.handler = "cart"
  THEN Answer(200, AddedMessage, locals)
  ELSE Answer(400, FailedMessage, locals)

\* the handler's answer to the value its mutation function returned: the cart
\* handler looks for userErrors in the result, the order handlers for null
AfterNull(locals) ==
  IF cfg.handler = "cart"
  THEN Answer(200, AddedMessage, locals)
  ELSE Answer(500, FailedMessage, locals)

StartMutation_NoConfigCheck(locals) ==
  IF cfg.handler = "cart"
  THEN Step("cartLinesAdd", NoResp, locals,
            <<Call("cartLinesAdd", locals.orderId, VariantGid, Undefined, "unset")>>)
  ELSE Step("begin", NoResp, locals,
            <<Call(BeginOp,
                   IF cfg.handler = "orderV1" THEN locals.orderId
                                              ELSE StrV(OrderGid(locals.orderId)),
                   <<>>, Undefined, "unset")>>)

\* addHiddenProductToCart / addFreeItemToOrder up to the first fetch
StartMutation(locals) ==
  IF cfg.ACCESS_TOKEN = <<>> \/ cfg.OG_VARIANT_ID = <<>>
  THEN AfterNull(locals)
  ELSE IF cfg.handler = "cart"
       THEN Step("cartLinesAdd", NoResp, locals,
                 <<Call("cartLinesAdd", locals.orderId, VariantGid, Undefined, "unset")>>)
       ELSE Step("begin", NoResp, locals,
                 <<Call(BeginOp,
                        IF cfg.handler = "orderV1" THEN locals.orderId
                                                   ELSE StrV(OrderGid(locals.orderId)),
                        <<>>, Undefined, "unset")>>)

\* if (order.line_items) { order.line_items.forEach(...) }: a TypeError when
\* line_items is truthy and not a list; the cart handler and the second
\* handler of route.ts log without iterating
LoggingThrows(payload) ==
  /\ cfg.handler \in {"order", "orderV2"}
  /\ Truthy(payload.line_items)
  /\ NoList(payload.line_items)

Process_NoIdCheck(body) ==
  IF Tag(body) = "text"
  THEN Answer(500, "Error processing webhook", NoLoc)
  ELSE LET payload == body[2]
           locals == [NoLoc EXCEPT !.parsed = TRUE, !.orderId = PayloadId(payload)]
       IN IF LoggingThrows(payload)
          THEN Answer(500, "Error processing webhook", NoLoc)
          ELSE IF ConditionMet(payload)
               THEN StartMutation(locals)
               ELSE Answer(200, "Webhook received", locals)

\* POST after the signature check: parse, log, decide, start the mutation
Process(body) ==
  IF Tag(body) = "text"
  THEN Answer(500, "Error processing webhook", NoLoc)
  ELSE LET payload == body[2]
           locals == [NoLoc EXCEPT !.parsed = TRUE, !.orderId = PayloadId(payload)]
       IN IF LoggingThrows(payload)
          THEN Answer(500, "Error processing webhook", NoLoc)
          ELSE IF ConditionMet(payload)
               THEN IF ~Truthy(locals.orderId)
                    THEN Answer(400, MissingMessage, locals)
                    ELSE StartMutation(locals)
               ELSE Answer(200, "Webhook received", locals)

\* POST up to its first outbound call
Post(body, hmacHeader) ==
  LET isVerified == verifyShopifyWebhook(body, hmacHeader)
  IN IF isVerified.threw
     THEN Answer(500, "Error processing webhook", NoLoc)
     ELSE IF ~isVerified.value
          THEN Answer(401, "Invalid webhook signature", NoLoc)
          ELSE Process(body)

BeginThrows_NoTokenCheck(outcome) ==
  outcome \in {"http", "errors", "userErrors"}

\* whether the code after the begin call throws on a response
BeginThrows(outcome) ==
  IF cfg.handler = "orderV1"
  THEN outcome \in {"http", "errors", "userErrors", "noData"}
  ELSE outcome # "ok"

AddVariantThrows_HttpOnly(outcome) == outcome = "http"

\* whether the code after the add-variant call throws on a response
AddVariantThrows(outcome) ==
  IF cfg.handler = "orderV1"
  THEN outcome \in {"http", "errors", "userErrors", "noData"}
  ELSE outcome # "ok"

RepriceThrows_ErrorsOnly(outcome) == outcome \in {"http", "errors"}

\* whether the code after the discount / reprice call throws on a response
RepriceThrows(outcome) ==
  CASE cfg.handler = "order" -> outcome \in {"http", "errors", "userErrors"}
    [] cfg.handler = "orderV2" -> outcome \in {"http", "errors"}
    [] OTHER -> outcome = "http"

CommitThrows_HttpOnly(outcome) == outcome = "http"

\* whether the code after the commit call throws on a response
CommitThrows(outcome) == outcome \in {"http", "errors", "userErrors"}

\* the tokens the remote hands out to delivery d's edit session
SessionToken(d) == StrV(<<"gid://shopify/CalculatedOrder/", Digits[d + 1]>>)
LineToken(d) == StrV(<<"gid://shopify/CalculatedLineItem/", Digits[d + 1]>>)

\* the allowDuplicates argument of the add-variant mutation: inline false in
\* orderV1 and orderV2, absent in order, and in the test endpoint the
\* variable $allowDuplicates, which the request leaves unbound (it binds
\* allowDuplicate)
AllowDuplicates ==
  IF cfg.handler \in {"order", "orderTest"} THEN "unset" ELSE "false"

\* --------------------------------------------------------- the remote
NoSession == [state |-> "none", line |-> "none"]

\* whether the remote can carry out the call that delivery d has in flight
RemoteAccepts(d) ==
  LET call == calls[d][Len(calls[d])]
  IN CASE pc[d] = "cartLinesAdd" ->
            Truthy(call.id) /\ call.variantId = TargetGid
       [] pc[d] = "begin" ->
            call.id = StrV(EntityGid)
       [] pc[d] = "addVariant" ->
            /\ call.id = SessionToken(d)
            /\ session[d].state = "open"
            /\ call.variantId = TargetGid
            /\ call.allowDuplicates = "false" =>
                 (lines = <<>> /\ session[d].line = "none")
       [] pc[d] = "reprice" ->
            /\ call.id = SessionToken(d)
            /\ call.lineItemId = LineToken(d)
            /\ session[d].state = "open"
            /\ session[d].line # "none"
       [] pc[d] = "commit" ->
            call.id = SessionToken(d) /\ session[d].state = "open"
       [] OTHER -> FALSE

\* the responses the call in flight can get
Responses(d) == IF RemoteAccepts(d) THEN Outcomes ELSE Outcomes \ {"ok"}

\* the log of delivery d with the outcome of its last call filled in and
\* the call a step issued appended
Logged(d, outcome, issued) ==
  [calls[d] EXCEPT ![Len(calls[d])].outcome = outcome] \o issued

\* ------------------------------------------------------------ actions
Settle(d, outcome, step) ==
  /\ pc' = [pc EXCEPT ![d] = step.pc]
  /\ resp' = [resp EXCEPT ![d] = step.resp]
  /\ loc' = [loc EXCEPT ![d] = step.loc]
  /\ calls' = [calls EXCEPT ![d] = Logged(d, outcome, step.issued)]

\* a request arrives and POST runs to its first outbound call
Deliver(d) ==
  /\ cfg.handler \in Handlers
  /\ pc[d] = "idle"
  /\ \A e \in Deliveries : e < d => pc[e] # "idle"
  /\ mode.serial => \A e \in Deliveries : pc[e] \in {"idle", "done"}
  /\ \E body \in Bodies : \E hmacHeader \in Headers(body) :
       LET step == Post(body, hmacHeader)
       IN /\ req' = [req EXCEPT ![d] = [body |-> body, hmacHeader |-> hmacHeader]]
          /\ pc' = [pc EXCEPT ![d] = step.pc]
          /\ resp' = [resp EXCEPT ![d] = step.resp]
          /\ loc' = [loc EXCEPT ![d] = step.loc]
          /\ calls' = [calls EXCEPT ![d] = step.issued]
  /\ UNCHANGED <<cfg, mode, env, lines, session, test>>

\* the cartLinesAdd call returns
CartLinesAddReturns(d) ==
  /\ pc[d] = "cartLinesAdd"
  /\ \E outcome \in Responses(d) :
       /\ lines' = IF outcome = "ok" THEN Append(lines, "paid") ELSE lines
       /\ Settle(d, outcome,
                 IF outcome = "userErrors"
                 THEN Answer(500, FailedMessage, loc[d])
                 ELSE Answer(200, AddedMessage, loc[d]))
  /\ UNCHANGED <<cfg, mode, env, req, session, test>>

\* the begin call returns
BeginReturns(d) ==
  /\ pc[d] = "begin"
  /\ \E outcome \in Responses(d) :
       /\ session' = IF outcome = "ok"
                     THEN [session EXCEPT ![d].state = "open"]
                     ELSE session
       /\ Settle(d, outcome,
                 IF BeginThrows(outcome)
                 THEN AfterNull(loc[d])
                 ELSE LET locals == [loc[d] EXCEPT !.editId =
                                       IF outcome = "ok" THEN SessionToken(d)
                                                         ELSE Undefined]
                      IN Step("addVariant", NoResp, locals,
                              <<Call("orderEditAddVariant", locals.editId, VariantGid,
                                     Undefined, AllowDuplicates)>>))
  /\ UNCHANGED <<cfg, mode, env, req, lines, test>>

\* the add-variant call returns
AddVariantReturns(d) ==
  /\ pc[d] = "addVariant"
  /\ \E outcome \in Responses(d) :
       /\ session' = IF outcome = "ok"
                     THEN [session EXCEPT ![d].line = "paid"]
                     ELSE session
       /\ Settle(d, outcome,
                 IF AddVariantThrows(outcome)
                 THEN AfterNull(loc[d])
                 ELSE LET locals == [loc[d] EXCEPT !.lineItemId =
                                       IF outcome = "ok" THEN LineToken(d)
                                                         ELSE Undefined]
                      IN IF cfg.handler = "orderTest"
                         THEN Step("commit", NoResp, locals,
                                   <<Call("orderEditCommit", locals.editId, <<>>,
                                          Undefined, "unset")>>)
                         ELSE Step("reprice", NoResp, locals,
                                   <<Call(RepriceOp, locals.editId, <<>>,
                                          locals.lineItemId, "unset")>>))
  /\ UNCHANGED <<cfg, mode, env, req, lines, test>>

\* the discount call (order) or the reprice call (orderV1, orderV2) returns
RepriceReturns(d) ==
  /\ pc[d] = "reprice"
  /\ \E outcome \in Responses(d) :
       /\ session' = IF outcome = "ok"
                     THEN [session EXCEPT ![d].line = "free"]
                     ELSE session
       /\ Settle(d, outcome,
                 IF RepriceThrows(outcome)
                 THEN AfterNull(loc[d])
                 ELSE Step("commit", NoResp, loc[d],
                           <<Call("orderEditCommit", loc[d].editId, <<>>,
                                  Undefined, "unset")>>))
  /\ UNCHANGED <<cfg, mode, env, req, lines, test>>

\* the commit call returns
CommitReturns(d) ==
  /\ pc[d] = "commit"
  /\ \E outcome \in Responses(d) :
       /\ session' = IF outcome = "ok"
                     THEN [session EXCEPT ![d].state = "committed"]
                     ELSE session
       /\ lines' = IF outcome = "ok" /\ session[d].line # "none"
                   THEN Append(lines, session[d].line)
                   ELSE lines
       /\ Settle(d, outcome,
                 IF CommitThrows(outcome)
                 THEN AfterNull(loc[d])
                 ELSE Answer(200, AddedMessage, loc[d]))
  /\ UNCHANGED <<cfg, mode, env, req, test>>

Next ==
  \/ \E d \in Deliveries : Deliver(d)
  \/ \E d \in Deliveries : CartLinesAddReturns(d)
  \/ \E d \in Deliveries : BeginReturns(d)
  \/ \E d \in Deliveries : AddVariantReturns(d)
  \/ \E d \in Deliveries : RepriceReturns(d)
  \/ \E d \in Deliveries : CommitReturns(d)

\* ------------------------------------------------ the test endpoint
\* a delivery that did not come through the test endpoint
NoTest == [at |-> "none", body |-> Garbage, response |-> NoResp, inner |-> NoResp]

\* the request the test endpoint sends to the cart-update handler
Forward_Signed(body) == [body |-> body, hmacHeader |-> StrV(Hmac(PlatformSecret, body))]

Forward(body) == [body |-> body, hmacHeader |-> Undefined]

\* what the test endpoint answers: the handler's status inside a 200, or
\* 500 when the forwarding fetch was rejected
TestAnswer(arrived, inner) ==
  IF arrived
  THEN [response |-> Resp(200, "Test webhook forwarded to handler"), inner |-> inner]
  ELSE [response |-> Resp(500, "Error processing test webhook"), inner |-> NoResp]

\* the test endpoint receives a request and forwards it; the cart-update
\* handler runs to its first outbound call
TestPost(d) ==
  /\ cfg.handler = "cart"
  /\ pc[d] = "idle"
  /\ \A e \in Deliveries : e < d => pc[e] # "idle"
  /\ mode.serial => \A e \in Deliveries : pc[e] \in {"idle", "done"}
  /\ \E body \in Bodies :
       LET request == Forward(body)
           step == Post(request.body, request.hmacHeader)
       IN /\ test' = [test EXCEPT ![d] = [NoTest EXCEPT !.at = "fetch", !.body = body]]
          /\ req' = [req EXCEPT ![d] = request]
          /\ pc' = [pc EXCEPT ![d] = step.pc]
          /\ resp' = [resp EXCEPT ![d] = step.resp]
          /\ loc' = [loc EXCEPT ![d] = step.loc]
          /\ calls' = [calls EXCEPT ![d] = step.issued]
  /\ UNCHANGED <<cfg, mode, env, lines, session>>

\* the forwarding fetch settles: with the handler's response once the
\* handler has answered, or rejected at any time
TestFetchReturns(d) ==
  /\ test[d].at = "fetch"
  /\ \E arrived \in BOOLEAN :
       /\ arrived => pc[d] = "done"
       /\ LET answer == TestAnswer(arrived, resp[d])
          IN test' = [test EXCEPT ![d].at = "done",
                                  ![d].response = answer.response,
                                  ![d].inner = answer.inner]
  /\ UNCHANGED <<cfg, mode, env, req, pc, loc, resp, calls, lines, session>>

\* the cart-update handler reached directly and through the test endpoint
NextTest ==
  \/ \E d \in Deliveries : Deliver(d)
  \/ \E d \in Deliveries : TestPost(d)
  \/ \E d \in Deliveries : TestFetchReturns(d)
  \/ \E d \in Deliveries : CartLinesAddReturns(d)

\* ------------------------------------------- the order test endpoint
\* const testOrder, the hard-coded order of the GET endpoint
TestOrder == [id |-> EntityId, admin_graphql_api_id |-> StrV(EntityGid)]

\* the product whose first variant the endpoint asks for
TargetProductGid == <<"gid://shopify/Product/">> \o String(TargetProductId)

\* s.startsWith('gid://')
HasGidPrefix(s) ==
  Len(s) >= 1 /\ s[1] \in {OrderPrefix[1], VariantPrefix[1], TargetProductGid[1]}

\* let orderGid = order.admin_graphql_api_id; if it is missing or not a
\* gid, `gid://shopify/Order/${order.id}` when order.id is truthy
TestOrderGid(order) ==
  IF Truthy(order.admin_graphql_api_id)
     /\ HasGidPrefix(String(order.admin_graphql_api_id))
  THEN order.admin_graphql_api_id
  ELSE IF Truthy(order.id)
       THEN StrV(OrderPrefix \o String(order.id))
       ELSE order.admin_graphql_api_id

\* the first variant the remote may report for the product
FetchedVariants == {TargetGid, VariantPrefix \o <<"6">>}

\* the responses a query can get
QueryOutcomes == {"ok", "http", "errors", "noData"}

\* addFreeItemToOrder of the test endpoint up to its begin fetch: it reads
\* the module constants, which were set when the module was loaded
TestAddFreeItemToOrder(locals) ==
  IF cfg.ACCESS_TOKEN = <<>> \/ cfg.OG_VARIANT_ID = <<>>
  THEN AfterNull(locals)
  ELSE Step("begin", NoResp, locals,
            <<Call(BeginOp, TestOrderGid(TestOrder), <<>>, Undefined, "unset")>>)

\* GET is called and runs to the fetch of the order query
Get(d) ==
  /\ cfg.handler = "orderTest"
  /\ pc[d] = "idle"
  /\ \A e \in Deliveries : e < d => pc[e] # "idle"
  /\ mode.serial => \A e \in Deliveries : pc[e] \in {"idle", "done"}
  /\ pc' = [pc EXCEPT ![d] = "orderQuery"]
  /\ calls' = [calls EXCEPT ![d] =
                 <<Call("order", StrV(EntityGid), <<>>, Undefined, "unset")>>]
  /\ UNCHANGED <<cfg, mode, env, req, loc, resp, lines, session, test>>

\* the order query returns
OrderQueryReturns(d) ==
  /\ pc[d] = "orderQuery"
  /\ \E outcome \in QueryOutcomes :
       Settle(d, outcome,
              CASE outcome = "http" -> Answer(500, "Error processing request", loc[d])
                [] outcome = "errors" -> Answer(500, "Failed to fetch order", loc[d])
                [] OTHER ->
                   Step("productQuery", NoResp, loc[d],
                        <<Call("product", StrV(TargetProductGid), <<>>,
                               Undefined, "unset")>>))
  /\ UNCHANGED <<cfg, mode, env, req, lines, session, test>>

\* the product query returns; with a variant in the response GET writes it
\* to process.env.OG_VARIANT_ID and calls addFreeItemToOrder
ProductQueryReturns(d) ==
  /\ pc[d] = "productQuery"
  /\ \E outcome \in QueryOutcomes : \E variantId \in FetchedVariants :
       /\ env' = IF outcome = "ok" THEN [env EXCEPT !.OG_VARIANT_ID = variantId]
                                   ELSE env
       /\ Settle(d, outcome,
                 CASE outcome = "http" ->
                        Answer(500, "Error processing request", loc[d])
                   [] outcome = "errors" ->
                        Answer(500, "Failed to fetch product", loc[d])
                   [] outcome = "noData" ->
                        Answer(500, "Failed to get variant ID from product", loc[d])
                   [] OTHER ->
                        TestAddFreeItemToOrder(
                          [loc[d] EXCEPT !.variantId = StrV(variantId)]))
  /\ UNCHANGED <<cfg, mode, req, lines, session, test>>

\* the webhook handlers and the order test endpoint
NextGet ==
  \/ \E d \in Deliveries : Deliver(d)
  \/ \E d \in Deliveries : CartLinesAddReturns(d)
  \/ \E d \in Deliveries : Get(d)
  \/ \E d \in Deliveries : OrderQueryReturns(d)
  \/ \E d \in Deliveries : ProductQueryReturns(d)
  \/ \E d \in Deliveries : BeginReturns(d)
  \/ \E d \in Deliveries : AddVariantReturns(d)
  \/ \E d \in Deliveries : RepriceReturns(d)
  \/ \E d \in Deliveries : CommitReturns(d)

\* ----------------------------------------------------- specifications
NoReq == [body |-> Garbage, hmacHeader |-> Undefined]

\* the trigger setting that names the shopper's item for handler h
TriggerSetting(h) ==
  IF h = "cart" THEN String(TriggerVariantId) ELSE String(TriggerProductId)

Config(h, bypass, secret, target, token) ==
  [handler |-> h,
   BYPASS_WEBHOOK_VERIFICATION |-> bypass,
   SHOPIFY_WEBHOOK_SECRET |-> secret,
   TRIGGER_VARIANT_IDS |-> TriggerSetting(h),
   OG_VARIANT_ID |-> target,
   ACCESS_TOKEN |-> token]

\* the deployments in which the platform's webhooks are verified
PlatformConfigs ==
  {Config(h, FALSE, PlatformSecret, target, <<"token">>) :
     h \in Handlers, target \in {String(TargetVariantId), TargetGid}}

\* the deployments a request of any sender may meet
AuthConfigs ==
  {Config(h, bypass, secret, String(TargetVariantId), <<"token">>) :
     h \in Handlers, bypass \in BOOLEAN, secret \in {<<>>, PlatformSecret}}

\* deployments whose target or token setting may be missing
SignedConfigs ==
  {Config(h, FALSE, PlatformSecret, target, token) :
     h \in Handlers, target \in {<<>>, String(TargetVariantId)},
     token \in {<<>>, <<"token">>}}

\* the values of TRIGGER_VARIANT_IDS: unset, one identifier, a list
TriggerSettings(h) == {<<>>, TriggerSetting(h), <<"0", ",">> \o TriggerSetting(h)}

\* deployments that differ in their trigger setting
ItemConfigs ==
  UNION {{[Config(h, FALSE, PlatformSecret, String(TargetVariantId), <<"token">>)
             EXCEPT !.TRIGGER_VARIANT_IDS = triggers] :
            triggers \in TriggerSettings(h)} : h \in Handlers}

InitWith(configs, n, serial, sender) ==
  /\ cfg \in configs
  /\ mode = [n |-> n, serial |-> serial, sender |-> sender]
  /\ env = [OG_VARIANT_ID |-> cfg.OG_VARIANT_ID]
  /\ req = [d \in 1..n |-> NoReq]
  /\ pc = [d \in 1..n |-> "idle"]
  /\ loc = [d \in 1..n |-> NoLoc]
  /\ resp = [d \in 1..n |-> NoResp]
  /\ calls = [d \in 1..n |-> <<>>]
  /\ lines = <<>>
  /\ session = [d \in 1..n |-> NoSession]
  /\ test = [d \in 1..n |-> NoTest]

\* the platform's deliveries for one entity, handled concurrently
Init == InitWith(PlatformConfigs, MaxDeliveries, FALSE, "platform")
Spec == Init /\ [][Next]_vars

\* the platform's deliveries for one entity, handled one after another
InitSerial == InitWith(PlatformConfigs, MaxDeliveries, TRUE, "platform")
SpecSerial == InitSerial /\ [][Next]_vars

\* requests of any sender, with any signature header
InitAuth == InitWith(AuthConfigs, AuthDeliveries, TRUE, "any")
SpecAuth == InitAuth /\ [][Next]_vars

\* signed requests whose payloads differ in identifiers and list shape
InitSigned == InitWith(SignedConfigs, PayloadDeliveries, TRUE, "signed")
SpecSigned == InitSigned /\ [][Next]_vars

\* signed requests whose payloads differ in their line items
InitItems == InitWith(ItemConfigs, PayloadDeliveries, TRUE, "items")
SpecItems == InitItems /\ [][Next]_vars

\* signed qualifying payloads that differ in identifier form and trigger
\* items, under either form of the target setting
InitVaried == InitWith(PlatformConfigs, PayloadDeliveries, TRUE, "varied")
SpecVaried == InitVaried /\ [][Next]_vars

\* the platform delivers the entity's first payload again and again, one
\* delivery after another
InitRedelivery == InitWith(PlatformConfigs, MaxDeliveries, TRUE, "redelivery")
SpecRedelivery == InitRedelivery /\ [][Next]_vars

\* the call that delivery d awaits returns
Returns(d) ==
  \/ CartLinesAddReturns(d)
  \/ BeginReturns(d)
  \/ AddVariantReturns(d)
  \/ RepriceReturns(d)
  \/ CommitReturns(d)

\* concurrent deliveries of the platform when every outbound call returns:
\* an awaited fetch is resumed when its response arrives, and a handler
\* takes its next step without waiting for anything else
InitLive == InitWith(PlatformConfigs, PayloadDeliveries, FALSE, "platform")
SpecLive ==
  InitLive /\ [][Next]_vars /\ \A d \in 1..PayloadDeliveries : WF_vars(Returns(d))

\* requests of any sender to the cart-update handler and to the test
\* endpoint in front of it
TestConfigs == {c \in AuthConfigs : c.handler = "cart"}
InitTest == InitWith(TestConfigs, AuthDeliveries, FALSE, "any")
SpecTest == InitTest /\ [][NextTest]_vars

\* the deployments of the order test endpoint: the target setting unset,
\* bare, or a global identifier when the module is loaded
GetConfigs ==
  {Config("orderTest", FALSE, PlatformSecret, target, <<"token">>) :
     target \in {<<>>, String(TargetVariantId), TargetGid}}

\* the platform's deliveries to the webhook handlers, and calls of the order
\* test endpoint
InitGet == InitWith(PlatformConfigs \cup GetConfigs, PayloadDeliveries, FALSE, "platform")
SpecGet == InitGet /\ [][NextGet]_vars

\* ------------------------------------------------------------- claims
Delivered == {d \in Deliveries : pc[d] # "idle"}

\* the line items of a delivered payload, <<>> when it carries no list
ItemsOf(d) ==
  LET body == req[d].body
      items == IF Tag(body) = "text" THEN Undefined
               ELSE IF cfg.handler = "cart" THEN body[2].items
               ELSE body[2].line_items
  IN IF Tag(items) = "array" THEN items[2] ELSE <<>>

CarriesTrigger(d) == \E i \in 1..Len(ItemsOf(d)) : ItemsOf(d)[i] = TriggerItem
CarriesTarget(d) == \E i \in 1..Len(ItemsOf(d)) : ItemsOf(d)[i] = TargetItem

Failures == {"http", "errors", "userErrors"}

\* C1: with bypass disabled, a request whose supplied signature header is
\* not the expected signature, whatever its length, is answered 401 and
\* causes no outbound call.
C1_BadSignature401 ==
  \A d \in Delivered :
    (/\ ~cfg.BYPASS_WEBHOOK_VERIFICATION
     /\ Tag(req[d].hmacHeader) = "string"
     /\ req[d].hmacHeader[2] # Hmac(cfg.SHOPIFY_WEBHOOK_SECRET, req[d].body))
    => resp[d].status = 401 /\ calls[d] = <<>>

\* C2: with bypass disabled, a secret and a present header, the verifier
\* returns a boolean, never an exception, and returns true exactly when the
\* header is the base64 HMAC-SHA256 of the raw body under the secret.
C2_VerifierIffHmac ==
  \A d \in Delivered :
    (/\ ~cfg.BYPASS_WEBHOOK_VERIFICATION
     /\ cfg.SHOPIFY_WEBHOOK_SECRET # <<>>
     /\ Tag(req[d].hmacHeader) = "string")
    => LET v == verifyShopifyWebhook(req[d].body, req[d].hmacHeader)
       IN /\ ~v.threw
          /\ v.value <=> (req[d].hmacHeader[2]
                            = Hmac(cfg.SHOPIFY_WEBHOOK_SECRET, req[d].body))

\* C3: with bypass disabled, a request without signature header, or any
\* request to a deployment without webhook secret, is answered 401 before
\* the body is parsed and without any outbound call.
C3_Unverified401 ==
  \A d \in Delivered :
    (/\ ~cfg.BYPASS_WEBHOOK_VERIFICATION
     /\ cfg.SHOPIFY_WEBHOOK_SECRET = <<>> \/ Tag(req[d].hmacHeader) # "string")
    => resp[d].status = 401 /\ ~loc[d].parsed /\ calls[d] = <<>>

C3_Witness ==
  \E d \in Delivered :
    /\ ~cfg.BYPASS_WEBHOOK_VERIFICATION
    /\ cfg.SHOPIFY_WEBHOOK_SECRET # <<>>
    /\ req[d].hmacHeader = Undefined
    /\ req[d].body = Garbage
    /\ resp[d].status = 401

\* C4: with the bypass flag enabled the verifier returns true for every
\* request, and the handler goes on exactly as it does after a successful
\* check: it parses the body and decides from the payload alone.
C4_BypassAccepts ==
  cfg.BYPASS_WEBHOOK_VERIFICATION =>
    \A d \in Delivered :
      /\ verifyShopifyWebhook(req[d].body, req[d].hmacHeader)
           = [threw |-> FALSE, value |-> TRUE]
      /\ Post(req[d].body, req[d].hmacHeader) = Process(req[d].body)
      /\ resp[d].status # 401
      /\ loc[d].parsed \/ req[d].body = Garbage
      /\ (CarriesTrigger(d) /\ ~CarriesTarget(d) /\ Truthy(loc[d].orderId))
           => calls[d] # <<>>

C4_Witness ==
  /\ cfg.BYPASS_WEBHOOK_VERIFICATION
  /\ cfg.SHOPIFY_WEBHOOK_SECRET = <<>>
  /\ \E d \in Delivered :
       /\ req[d].hmacHeader = Undefined
       /\ CarriesTrigger(d)
       /\ resp[d] = Resp(200, AddedMessage)

\* whether delivery d's add has taken effect on the entity
Added(d) ==
  IF cfg.handler = "cart"
  THEN calls[d] # <<>> /\ calls[d][Len(calls[d])].outcome = "ok"
  ELSE session[d].state = "committed" /\ session[d].line # "none"

\* C5: when the deliveries for one entity are handled one after another
\* and each payload carries the entity's current line items, the target is
\* never added twice to it.
C5_NeverAddedTwice == Len(lines) <= 1

\* C6: nothing is shared between deliveries: a delivery whose payload shows
\* the target absent issues the add whatever the other deliveries for the
\* same entity are doing, and every add that goes through adds one more
\* target unit, so that concurrent deliveries add the target twice.
C6_NoDeduplication ==
  /\ \A d \in Delivered : ~CarriesTarget(d) => calls[d] # <<>>
  /\ Len(lines) = Cardinality({d \in Delivered : Added(d)})

C6_Witness ==
  \E d, e \in Delivered :
    /\ d # e
    /\ ~CarriesTarget(d) /\ ~CarriesTarget(e)
    /\ resp[d] = Resp(200, AddedMessage) /\ Added(d)
    /\ resp[e] = Resp(200, AddedMessage) /\ Added(e)
    /\ Len(lines) = 2

\* C7: in the order-update handler, when the begin call returns a user
\* error, a top-level error list, a non-2xx status or a response without
\* the session token, no further call is issued, addFreeItemToOrder
\* returns null and the handler answers 500.
C7_BeginFailureAborts ==
  cfg.handler = "order" =>
    \A d \in Delivered :
      (calls[d] # <<>> /\ calls[d][1].outcome \notin {"pending", "ok"})
      => /\ Len(calls[d]) = 1
         /\ pc[d] = "done"
         /\ resp[d] = Resp(500, "Failed to add free item to order")

C7_Witness ==
  /\ cfg.handler = "order"
  /\ \E d \in Delivered :
       /\ calls[d] # <<>>
       /\ calls[d][1].op = "orderEditBegin"
       /\ calls[d][1].outcome = "userErrors"
       /\ resp[d].status = 500

\* C8: in the order-update handler a failed step, be it a non-2xx status
\* or an error list inside a 2xx response, is the last call of the
\* delivery (no commit follows a failed begin, add-variant or discount)
\* and the handler answers 500.
C8_FailureAbortsRest ==
  cfg.handler = "order" =>
    \A d \in Delivered : \A i \in 1..Len(calls[d]) :
      calls[d][i].outcome \in Failures
      => /\ i = Len(calls[d])
         /\ pc[d] = "done"
         /\ resp[d].status = 500

C8_Witness ==
  /\ cfg.handler = "order"
  /\ \E d \in Delivered :
       /\ Len(calls[d]) = 3
       /\ calls[d][3].op = "orderEditAddLineItemDiscount"
       /\ calls[d][3].outcome = "userErrors"
       /\ resp[d].status = 500

\* C9: in the handlers whose third step reprices the new line to zero, a
\* userErrors list in the reprice response is a failure: no commit call is
\* issued after it.
C9_RepriceUserErrorsAbort ==
  cfg.handler \in {"orderV1", "orderV2"} =>
    \A d \in Delivered :
      (/\ Len(calls[d]) >= 3
       /\ calls[d][1].outcome = "ok"
       /\ calls[d][2].outcome = "ok"
       /\ calls[d][3].outcome = "userErrors")
      => Len(calls[d]) = 3

\* the calls of the order-edit transaction, in order
Sequence ==
  <<"orderEditBegin", "orderEditAddVariant", "orderEditAddLineItemDiscount",
    "orderEditCommit">>

\* C10: within one order-update delivery the calls are begin, add variant,
\* discount, commit in this order, each at most once; a call is issued
\* only after the one before it has returned without failure; at most one
\* call is in flight; no call is issued again.
C10_StrictSequence ==
  cfg.handler = "order" =>
    \A d \in Deliveries :
      /\ Len(calls[d]) <= Len(Sequence)
      /\ \A i \in 1..Len(calls[d]) :
           /\ calls[d][i].op = Sequence[i]
           /\ i < Len(calls[d]) => calls[d][i].outcome \notin Failures \cup {"pending"}
           /\ calls[d][i].outcome = "pending" => i = Len(calls[d]) /\ pc[d] # "done"

C10_Witness ==
  /\ cfg.handler = "order"
  /\ \E d \in Delivered :
       /\ Len(calls[d]) = 4
       /\ \A i \in 1..4 : calls[d][i].outcome = "ok"
       /\ resp[d].status = 200

\* a delivery whose body parsed as JSON, its payload, and whether its
\* signature was accepted
Parsed(d) == Tag(req[d].body) = "json"
PayloadOf(d) == req[d].body[2]
Verified(d) ==
  LET isVerified == verifyShopifyWebhook(req[d].body, req[d].hmacHeader)
  IN ~isVerified.threw /\ isVerified.value

\* the delivery's only call is a cartLinesAdd of one unit of the configured
\* target variant against the payload's id, or its token when the id is absent
AddsTargetLineOnce(d) ==
  /\ Len(calls[d]) = 1
  /\ calls[d][1].op = "cartLinesAdd"
  /\ calls[d][1].id = (IF Truthy(PayloadOf(d).id) THEN PayloadOf(d).id
                                                 ELSE PayloadOf(d).token)
  /\ calls[d][1].variantId = VariantPrefix \o cfg.OG_VARIANT_ID
  /\ calls[d][1].quantity = 1

\* C11 as stated: a verified cart payload that contains a trigger variant
\* and not the target variant makes the cart handler issue exactly one
\* cartLinesAdd call, for one unit of the configured target variant against
\* the payload's cart id (or its token), and answer 200 with success true
\* (read for payloads with an id or token and a configured deployment).
C11_CartAddsOnce ==
  cfg.handler = "cart" =>
    \A d \in Delivered :
      (Verified(d) /\ Parsed(d) /\ CarriesTrigger(d) /\ ~CarriesTarget(d)
       /\ (Truthy(PayloadOf(d).id) \/ Truthy(PayloadOf(d).token))
       /\ cfg.ACCESS_TOKEN # <<>> /\ cfg.OG_VARIANT_ID # <<>>
       /\ pc[d] = "done")
      => AddsTargetLineOnce(d) /\ resp[d].status = 200

\* C11 amended: when the payload carries a cart id or a token and the client
\* token and the target setting are configured, the handler issues exactly
\* one such call; it answers 500 when the call returns user errors and 200
\* with success true otherwise.
C11_CartAddsOnceWhenAble ==
  cfg.handler = "cart" =>
    \A d \in Delivered :
      (Verified(d) /\ Parsed(d) /\ CarriesTrigger(d) /\ ~CarriesTarget(d)
       /\ (Truthy(PayloadOf(d).id) \/ Truthy(PayloadOf(d).token))
       /\ cfg.ACCESS_TOKEN # <<>> /\ cfg.OG_VARIANT_ID # <<>>)
      => /\ AddsTargetLineOnce(d)
         /\ pc[d] = "done" =>
              IF calls[d][1].outcome = "userErrors"
              THEN resp[d] = Resp(500, "Failed to add product")
              ELSE resp[d] = Resp(200, "Hidden product added to cart")

C11_Witness ==
  /\ cfg.handler = "cart"
  /\ \E d \in Delivered :
       /\ pc[d] = "done" /\ Parsed(d) /\ CarriesTrigger(d)
       /\ ~Truthy(PayloadOf(d).id)
       /\ AddsTargetLineOnce(d)
       /\ calls[d][1].outcome = "ok"
       /\ resp[d] = Resp(200, "Hidden product added to cart")

\* C12: for every verified, parseable payload in which no trigger item is
\* present or the target is already present, the cart and order handlers
\* issue no outbound call and answer 200 'Webhook received' (success true).
C12_NoActionAcknowledged ==
  (cfg.handler \in {"cart", "order"} /\ cfg.OG_VARIANT_ID # <<>>) =>
    \A d \in Delivered :
      (Verified(d) /\ Parsed(d) /\ (~CarriesTrigger(d) \/ CarriesTarget(d)))
      => calls[d] = <<>> /\ resp[d] = Resp(200, "Webhook received")

\* the trigger and presence predicates of the deployed handler
TriggerFound(payload) ==
  CASE cfg.handler = "cart" -> hasTriggerProductCart(payload)
    [] cfg.handler = "orderV1" -> hasTriggerProductV1(payload)
    [] OTHER -> hasTriggerProduct(payload)

TargetFound(payload) ==
  CASE cfg.handler = "cart" -> hasHiddenProduct(payload)
    [] cfg.handler = "orderV1" -> hasOGPackV1(payload)
    [] OTHER -> hasOGPack(payload)

\* the line items of a payload, <<>> when it carries no list, and the
\* identifier of an item that the flow's trigger predicate reads
ListOf(payload) ==
  LET items == IF cfg.handler = "cart" THEN payload.items ELSE payload.line_items
  IN IF Tag(items) = "array" THEN items[2] ELSE <<>>

IdOf(item) == IF cfg.handler = "cart" THEN item.variant_id ELSE item.product_id

\* C13: the trigger predicate returns false whenever the trigger list is
\* empty (the setting unset or the empty string) and whenever the line-item
\* collection is absent, not a list or empty, whatever the line items
\* contain, items with an empty-string identifier included.
C13_EmptyInputsNeverTrigger ==
  cfg.handler \in {"cart", "order"} =>
    \A d \in Delivered :
      (Parsed(d) /\ (cfg.TRIGGER_VARIANT_IDS = <<>> \/ ListOf(PayloadOf(d)) = <<>>))
      => ~TriggerFound(PayloadOf(d))

\* the entries of the trigger list
TriggerEntries == {TRIGGER_VARIANT_IDS[i] : i \in 1..Len(TRIGGER_VARIANT_IDS)}

\* C14 as stated: the trigger predicate is true if and only if some line
\* item's identifier (variant_id in the cart flow, product_id in the order
\* flow), converted to a string, equals an entry of the trigger list; a
\* numeric identifier and the string of the same digits are equal (read for
\* a trigger setting that is set).
C14_TriggerIffIdMatches ==
  (cfg.handler \in {"cart", "order"} /\ cfg.TRIGGER_VARIANT_IDS # <<>>) =>
    \A d \in Delivered :
      Parsed(d) =>
        (TriggerFound(PayloadOf(d)) <=>
           \E i \in 1..Len(ListOf(PayloadOf(d))) :
             String(IdOf(ListOf(PayloadOf(d))[i])) \in TriggerEntries)

\* C14 amended: as stated, except that the order handlers of route.ts:1-462
\* and part_002 pass over line items whose product_id is absent, 0 or the
\* empty string.
C14_TriggerIffTruthyIdMatches ==
  \A d \in Delivered :
    Parsed(d) =>
      (TriggerFound(PayloadOf(d)) <=>
         \E i \in 1..Len(ListOf(PayloadOf(d))) :
           LET id == IdOf(ListOf(PayloadOf(d))[i])
           IN /\ cfg.handler \in {"order", "orderV2"} => Truthy(id)
              /\ String(id) \in TriggerEntries)

C14_Witness ==
  /\ cfg.handler = "order"
  /\ \E d \in Delivered :
       /\ Parsed(d) /\ ~TriggerFound(PayloadOf(d))
       /\ \E i \in 1..Len(ListOf(PayloadOf(d))) :
            LET id == IdOf(ListOf(PayloadOf(d))[i])
            IN ~Truthy(id) /\ String(id) \in TriggerEntries

\* C15: in the order flow the presence predicate is true when any line
\* item's variant_id equals the target identifier and also when any line
\* item's product_id equals it, each field on its own being enough, and
\* false when neither field of any item matches.
C15_TargetFoundOnEitherField ==
  (cfg.handler \in {"order", "orderV1", "orderV2"} /\ cfg.OG_VARIANT_ID # <<>>) =>
    \A d \in Delivered :
      Parsed(d) =>
        (TargetFound(PayloadOf(d)) <=>
           \E i \in 1..Len(ListOf(PayloadOf(d))) :
             LET item == ListOf(PayloadOf(d))[i]
             IN \/ String(item.variant_id) = cfg.OG_VARIANT_ID
                \/ String(item.product_id) = cfg.OG_VARIANT_ID)

\* the add-line mutation of a cart delivery failed: its call came back with
\* a transport failure, top-level errors or user errors, or the payload
\* qualified and the client token or the target setting is missing
AddLineFailed(d) ==
  \/ \E i \in 1..Len(calls[d]) : calls[d][i].outcome \in Failures
  \/ /\ Parsed(d) /\ CarriesTrigger(d) /\ ~CarriesTarget(d)
     /\ Truthy(PayloadOf(d).id) \/ Truthy(PayloadOf(d).token)
     /\ cfg.ACCESS_TOKEN = <<>> \/ cfg.OG_VARIANT_ID = <<>>

\* C16: in the cart flow any failure of the add-line mutation is an overall
\* failure: the handler answers 500, and it never answers 'Hidden product
\* added to cart' unless the add call was issued and returned without errors.
C16_CartFailureIs500 ==
  cfg.handler = "cart" =>
    \A d \in Delivered :
      pc[d] = "done" =>
        /\ AddLineFailed(d) => resp[d].status = 500
        /\ resp[d].message = "Hidden product added to cart" =>
             Len(calls[d]) = 1 /\ calls[d][1].outcome \notin Failures

\* the payload carries no identifier: neither id nor token (cart), neither
\* id nor admin_graphql_api_id (order)
NoIdentifier(payload) ==
  /\ ~Truthy(payload.id)
  /\ ~Truthy(IF cfg.handler = "cart" THEN payload.token
                                     ELSE payload.admin_graphql_api_id)

\* C17 as stated: a verified, parseable payload that carries no identifier
\* is rejected with 400 and causes no outbound call, whatever its line
\* items are.
C17_NoIdentifier400 ==
  \A d \in Delivered :
    (Verified(d) /\ Parsed(d) /\ NoIdentifier(PayloadOf(d)))
    => calls[d] = <<>> /\ resp[d].status = 400

\* C17 amended: such a payload causes no outbound call; it is rejected with
\* 400 when it carries a trigger item and not the target.
C17_NoIdentifier400WhenQualifying ==
  \A d \in Delivered :
    (Verified(d) /\ Parsed(d) /\ NoIdentifier(PayloadOf(d)))
    => /\ calls[d] = <<>>
       /\ (CarriesTrigger(d) /\ ~CarriesTarget(d)) =>
            resp[d] = Resp(400, MissingMessage)

C17_Witness ==
  \E d \in Delivered :
    /\ Verified(d) /\ Parsed(d) /\ NoIdentifier(PayloadOf(d))
    /\ CarriesTrigger(d) /\ ~CarriesTarget(d)
    /\ cfg.ACCESS_TOKEN # <<>> /\ cfg.OG_VARIANT_ID # <<>>
    /\ pc[d] = "done" /\ resp[d].status = 400

\* C18: a verified request whose body is not parseable JSON is rejected
\* with a client error (a 4xx status) and causes no outbound call.
C18_Unparsable4xx ==
  \A d \in Delivered :
    (Verified(d) /\ ~Parsed(d))
    => calls[d] = <<>> /\ resp[d].status \in 400..499

\* C19: in the order flow, when the admin token or the target-variant
\* setting is missing, no delivery issues an outbound call, and a qualifying
\* order (trigger item present, target absent, numeric id present) is
\* answered 500 'Failed to add free item to order'.
C19_MissingConfigNoCalls ==
  (cfg.handler # "cart" /\ (cfg.ACCESS_TOKEN = <<>> \/ cfg.OG_VARIANT_ID = <<>>)) =>
    \A d \in Delivered :
      /\ calls[d] = <<>>
      /\ (Verified(d) /\ Parsed(d) /\ CarriesTrigger(d) /\ ~CarriesTarget(d)
          /\ Truthy(PayloadOf(d).id))
         => resp[d] = Resp(500, "Failed to add free item to order")

C19_Witness ==
  /\ cfg.handler = "order"
  /\ cfg.ACCESS_TOKEN = <<>> /\ cfg.OG_VARIANT_ID # <<>>
  /\ \E d \in Delivered :
       /\ Parsed(d) /\ CarriesTrigger(d) /\ ~CarriesTarget(d)
       /\ Truthy(PayloadOf(d).id)
       /\ pc[d] = "done" /\ calls[d] = <<>> /\ resp[d].status = 500

\* the handler failed while processing: the verifier threw, the body did
\* not parse, or the logging of the line items threw
ProcessingFailed(d) ==
  \/ verifyShopifyWebhook(req[d].body, req[d].hmacHeader).threw
  \/ Verified(d) /\ ~Parsed(d)
  \/ Verified(d) /\ Parsed(d) /\ LoggingThrows(PayloadOf(d))

\* a call of the delivery failed: transport failure, errors or user errors
DownstreamFailed(d) == \E i \in 1..Len(calls[d]) : calls[d][i].outcome \in Failures

\* a call came back without the expected data, or a setting the mutation
\* needs is missing
DownstreamIncomplete(d) ==
  \/ \E i \in 1..Len(calls[d]) : calls[d][i].outcome \in {"noData", "noToken"}
  \/ cfg.ACCESS_TOKEN = <<>> \/ cfg.OG_VARIANT_ID = <<>>

\* the identifier the handler reads from the payload is missing
IdentifierMissing(d) == Parsed(d) /\ ~Truthy(PayloadId(PayloadOf(d)))

\* the answer of a finished delivery fits the taxonomy of statuses
StatusFits(d) ==
  LET failed == ProcessingFailed(d) \/ DownstreamFailed(d) \/ DownstreamIncomplete(d)
  IN /\ resp[d].status \in {200, 400, 401, 500}
     /\ resp[d].status = 401 => ~Verified(d)
     /\ resp[d].status = 400 => IdentifierMissing(d)
     /\ resp[d].status = 500 => failed
     /\ resp[d].status = 200 => Verified(d) /\ ~ProcessingFailed(d)
     /\ (Verified(d) /\ ~IdentifierMissing(d) /\ ~failed) => resp[d].status = 200

\* C20: every delivery is answered exactly once, with status 200, 400, 401
\* or 500: 401 only for an unverified request, 400 only for a missing
\* identifier, 500 only for a processing or downstream failure, and 200
\* otherwise. A delivery has an answer exactly when its handler has
\* finished, and an answer once given is never replaced.
C20_StatusTaxonomy ==
  /\ [](\A d \in Delivered :
          /\ pc[d] = "done" <=> resp[d] # NoResp
          /\ pc[d] = "done" => StatusFits(d))
  /\ [][\A d \in Deliveries : resp[d] # NoResp => resp'[d] = resp[d]]_vars

C20_Witness ==
  /\ cfg.handler = "order" /\ ~cfg.BYPASS_WEBHOOK_VERIFICATION
  /\ \E d \in Delivered :
       /\ pc[d] = "done" /\ Verified(d) /\ DownstreamFailed(d)
       /\ resp[d].status = 500

\* the mutations the order-update handler of route.ts:1-462 sends
OrderOps == {Sequence[i] : i \in 1..Len(Sequence)}

\* a step after the successful begin of delivery d failed
FailedAfterBegin(d) ==
  /\ Len(calls[d]) >= 2
  /\ calls[d][1].outcome = "ok"
  /\ \E i \in 2..Len(calls[d]) : calls[d][i].outcome \in Failures

\* C21: no discard or rollback call is ever issued: when a step after a
\* successful begin fails, the edit session of the delivery stays open and
\* uncommitted, and no later action closes or references it (no call of
\* another delivery carries its token, and the session never changes again).
C21_NoDiscard ==
  /\ [](cfg.handler = "order" =>
          \A d \in Delivered :
            /\ \A i \in 1..Len(calls[d]) : calls[d][i].op \in OrderOps
            /\ \A e \in Delivered \ {d} : \A i \in 1..Len(calls[e]) :
                 calls[e][i].id # SessionToken(d)
            /\ FailedAfterBegin(d) =>
                 /\ session[d].state = "open"
                 /\ pc[d] = "done" /\ resp[d].status = 500)
  /\ [][cfg.handler = "order" =>
          \A d \in Deliveries :
            (pc[d] = "done" /\ session[d].state = "open") =>
              session'[d] = session[d]]_vars

C21_Witness ==
  /\ cfg.handler = "order"
  /\ \E d \in Delivered : \E e \in Delivered \ {d} :
       /\ FailedAfterBegin(d) /\ Len(calls[d]) = 4
       /\ session[d] = [state |-> "open", line |-> "free"]
       /\ pc[e] = "done" /\ session[e].state = "committed"

\* the string s consists of digits only
AllDigits(s) == s # <<>> /\ \A i \in 1..Len(s) : s[i] \in DigitTokens

\* C22: the begin call addresses the order by global identifier: an order
\* id that is a number or an all-digits string N goes out as
\* gid://shopify/Order/N, any other id unchanged, and translating what was
\* sent once more changes nothing; the target variant goes out with the
\* prefix gid://shopify/ProductVariant/ added only when the setting does not
\* carry it already.
C22_GlobalIdentifiers ==
  cfg.handler = "order" =>
    \A d \in Delivered :
      /\ calls[d] # <<>> =>
           LET orderId == loc[d].orderId
               sent == calls[d][1].id
           IN /\ calls[d][1].op = "orderEditBegin"
              /\ (Tag(orderId) = "number" \/ AllDigits(String(orderId)))
                 => sent = StrV(<<"gid://shopify/Order/">> \o String(orderId))
              /\ (Tag(orderId) = "string" /\ ~AllDigits(orderId[2]))
                 => sent = orderId
              /\ OrderGid(sent) = sent[2]
      /\ \A i \in 1..Len(calls[d]) :
           calls[d][i].op = "orderEditAddVariant" =>
             /\ calls[d][i].variantId[1] = "gid://shopify/ProductVariant/"
             /\ calls[d][i].variantId \in
                  {cfg.OG_VARIANT_ID,
                   <<"gid://shopify/ProductVariant/">> \o cfg.OG_VARIANT_ID}
             /\ Len(calls[d][i].variantId) = 2

C22_Witness ==
  /\ cfg.handler = "order" /\ cfg.OG_VARIANT_ID = TargetGid
  /\ \E d \in Delivered :
       /\ loc[d].orderId = StrV(EntityGid)
       /\ Len(calls[d]) >= 2
       /\ calls[d][1].id = StrV(EntityGid)
       /\ calls[d][2].variantId = TargetGid

\* delivery d issued begin, add variant, discount and commit in this order
\* and none of them came back with a failure
AllFourSucceeded(d) ==
  /\ Len(calls[d]) = 4
  /\ \A i \in 1..4 :
       calls[d][i].op = Sequence[i] /\ calls[d][i].outcome \notin Failures \cup {"pending"}

\* C23: the order-update handler answers 'Free item added to order' only
\* if in this delivery begin, add variant, discount and commit were all
\* issued in that order and each returned without HTTP failure, top-level
\* errors or userErrors; a change becomes durable in no other execution.
C23_SuccessOnlyAfterAllFour ==
  cfg.handler = "order" =>
    \A d \in Delivered :
      /\ resp[d].message = "Free item added to order" =>
           resp[d].status = 200 /\ AllFourSucceeded(d)
      /\ session[d].state = "committed" => AllFourSucceeded(d)
      /\ Len(lines) = Cardinality({e \in Delivered : session[e].state = "committed"})

C23_Witness ==
  /\ cfg.handler = "order"
  /\ \E d \in Delivered :
       /\ resp[d] = Resp(200, "Free item added to order")
       /\ AllFourSucceeded(d)
       /\ session[d].state = "committed" /\ lines # <<>>

\* the calls of delivery d with their outcomes left out
Issued(d) == [i \in 1..Len(calls[d]) |-> [calls[d][i] EXCEPT !.outcome = "pending"]]

\* every call of delivery d returned "ok"
AllOk(d) == \A i \in 1..Len(calls[d]) : calls[d][i].outcome = "ok"

\* C24: the handlers keep no state between deliveries and decide from the
\* payload alone: a redelivery of the identical qualifying payload starts
\* the add again whatever earlier deliveries did, issues the full sequence
\* when its calls succeed, and the target is added once per delivery that
\* succeeds.
C24_RedeliveryAddsAgain ==
  cfg.handler \in {"cart", "order"} =>
    /\ \A d \in Delivered :
         /\ calls[d] # <<>>
         /\ Issued(d)[1] = Issued(1)[1]
         /\ (pc[d] = "done" /\ AllOk(d)) =>
              /\ Len(calls[d]) = (IF cfg.handler = "cart" THEN 1 ELSE 4)
              /\ Added(d)
              /\ resp[d] = Resp(200, AddedMessage)
    /\ Len(lines) = Cardinality({d \in Delivered : Added(d)})

C24_Witness ==
  /\ cfg.handler = "order"
  /\ Cardinality(Delivered) >= 2
  /\ \A d \in Delivered : pc[d] = "done" /\ AllOk(d) /\ Added(d)
  /\ Len(lines) = Cardinality(Delivered)

\* C25: when every successful add is followed by an update that carries
\* the entity's updated line items, the follow-up delivery finds the target
\* present and issues no call: after one add no outbound call is made again.
C25_QuiescentAfterAdd ==
  cfg.handler \in {"cart", "order"} =>
    \A d \in Delivered : \A e \in Delivered :
      (d < e /\ Added(d)) => calls[e] = <<>>

\* delivery d awaits the response of an outbound call
Awaiting(d) == pc[d] \in {"cartLinesAdd", "begin", "addVariant", "reprice", "commit"}

\* C26: provided each outbound call returns, every delivery eventually
\* produces its response, after at most four outbound calls in the order
\* flow and at most one in the cart flow; while a call has not returned the
\* delivery has no response, and nothing but the return of the call (no
\* timeout, no cancellation) takes it further.
C26_RespondsWhenCallsReturn ==
  /\ \A d \in 1..PayloadDeliveries : (pc[d] # "idle") ~> (pc[d] = "done")
  /\ [](\A d \in Deliveries :
          /\ Len(calls[d]) <= (IF cfg.handler = "cart" THEN 1 ELSE 4)
          /\ pc[d] = "done" => resp[d] # NoResp
          /\ Awaiting(d) =>
               resp[d] = NoResp /\ calls[d][Len(calls[d])].outcome = "pending")
  /\ [][\A d \in Deliveries :
          (Awaiting(d) /\ pc'[d] # pc[d]) =>
            calls'[d][Len(calls[d])].outcome # "pending"]_vars

C26_Witness ==
  /\ cfg.handler = "order"
  /\ \E d \in Delivered :
       pc[d] = "done" /\ Len(calls[d]) = 4 /\ resp[d].status = 200

\* the calls of delivery d that add the target
AddCalls(d) ==
  {i \in 1..Len(calls[d]) : calls[d][i].op \in {"cartLinesAdd", "orderEditAddVariant"}}

\* C27: a qualifying payload leads to an add of exactly one unit of the
\* target on exactly one new line, however many of its line items match the
\* trigger list and whatever their quantities are.
C27_OneUnitOneLine ==
  /\ \A d \in Delivered :
       /\ Cardinality(AddCalls(d)) <= 1
       /\ \A i \in AddCalls(d) :
            calls[d][i].quantity = 1 /\ calls[d][i].variantId = VariantGid
       /\ (pc[d] = "done" /\ AllOk(d)) => Cardinality(AddCalls(d)) = 1 /\ Added(d)
  /\ Len(lines) = Cardinality({d \in Delivered : Added(d)})

C27_Witness ==
  \E d \in Delivered :
    /\ Len(ListOf(PayloadOf(d))) = 2
    /\ \A i \in 1..2 : ListOf(PayloadOf(d))[i] = TriggerItem
    /\ pc[d] = "done" /\ Added(d) /\ Len(lines) = 1

\* C28: in the cart flow the presence predicate recognises the target on
\* either identifier of a line item: a cart item whose variant_id or whose
\* product_id equals the target identifier counts as 'target present' and
\* suppresses the add.
C28_CartTargetOnEitherField ==
  (cfg.handler = "cart" /\ cfg.OG_VARIANT_ID # <<>>) =>
    \A d \in Delivered :
      (Parsed(d)
       /\ \E i \in 1..Len(ListOf(PayloadOf(d))) :
            \/ String(ListOf(PayloadOf(d))[i].variant_id) = cfg.OG_VARIANT_ID
            \/ String(ListOf(PayloadOf(d))[i].product_id) = cfg.OG_VARIANT_ID)
      => TargetFound(PayloadOf(d)) /\ calls[d] = <<>>

\* C29: when a qualifying order payload carries both admin_graphql_api_id
\* and a numeric id, the order-update handler passes admin_graphql_api_id
\* to the order-edit transaction, and the numeric id only when
\* admin_graphql_api_id is absent.
C29_PrefersGlobalId ==
  cfg.handler \in {"order", "orderV2"} =>
    \A d \in Delivered :
      (Parsed(d) /\ calls[d] # <<>>) =>
        loc[d].orderId = (IF Truthy(PayloadOf(d).admin_graphql_api_id)
                          THEN PayloadOf(d).admin_graphql_api_id
                          ELSE PayloadOf(d).id)

\* the deliveries that came through the test endpoint
Forwarded == {d \in Deliveries : test[d].at # "none"}

\* C30: the test endpoint forwards the body it received unchanged and
\* without a signature header; with bypass disabled the forwarded request is
\* answered 401 and issues no cart mutation; and whenever the handler's
\* response reaches the test endpoint, the test endpoint answers 200 and
\* reports the handler's status, whatever that status is
C30_TestForward ==
  \A d \in Forwarded :
    /\ req[d].body = test[d].body
    /\ req[d].hmacHeader = Undefined
    /\ ~cfg.BYPASS_WEBHOOK_VERIFICATION =>
         /\ pc[d] = "done"
         /\ resp[d] = Resp(401, "Invalid webhook signature")
         /\ calls[d] = <<>>
    /\ test[d].at = "done" =>
         \/ /\ test[d].response.status = 200
            /\ test[d].inner = resp[d]
            /\ resp[d] # NoResp
         \/ /\ test[d].response = Resp(500, "Error processing test webhook")
            /\ test[d].inner = NoResp

\* a qualifying cart forwarded with bypass disabled and the platform's
\* secret configured: the handler answered 401 and the test endpoint 200
C30_Witness ==
  \E d \in Forwarded :
    /\ ~cfg.BYPASS_WEBHOOK_VERIFICATION
    /\ cfg.SHOPIFY_WEBHOOK_SECRET = PlatformSecret
    /\ CarriesTrigger(d) /\ ~CarriesTarget(d)
    /\ test[d].at = "done"
    /\ test[d].response.status = 200
    /\ test[d].inner.status = 401

\* the add-variant calls that delivery d has issued
AddVariantCalls(d) ==
  {i \in 1..Len(calls[d]) : calls[d][i].op = "orderEditAddVariant"}

\* C31: in the order test endpoint the variant sent in the add-variant call
\* is the variant the product query returned
C31_FetchedVariantSent ==
  cfg.handler = "orderTest" =>
    \A d \in Deliveries : \A i \in AddVariantCalls(d) :
      calls[d][i].variantId = String(loc[d].variantId)

\* C32: every add-variant request of every order-edit variant carries
\* allowDuplicates = false
C32_ForbidsDuplicates ==
  \A d \in Deliveries : \A i \in AddVariantCalls(d) :
    calls[d][i].allowDuplicates = "false"
====
